---------------------------- MODULE Spec2Model ----------------------------
(***************************************************************************)
(* A model of parser/parser.go of terragrunt-builder: the diagnostic       *)
(* filter (checkDiagnostics), the document loader (loadFile), the          *)
(* top-level schema match (processSchema), the block extractors            *)
(* (processVariable, processOutput), the file processor (processTerraform, *)
(* processFile) and the directory aggregator (Parse).                      *)
(*                                                                         *)
(* The HCL library (hclsyntax.ParseConfig, Body.Content,                   *)
(* gohcl.DecodeExpression) and the file system (os.Stat, ioutil.ReadDir,   *)
(* os.ReadFile) are collaborators: what they return is an input, drawn     *)
(* from the bounded sets below.  A nil slice and an empty slice are both   *)
(* the empty sequence: the library returns nil when it has no diagnostic.  *)
(***************************************************************************)
EXTENDS Integers, Sequences, FiniteSets, TLC

VARIABLES
    cdIn,        \* checkDiagnostics: the arguments of the call
    cdOut,       \* checkDiagnostics: the call's result, once it has returned
    exIn,        \* processVariable / processOutput: the block passed
    exOut,       \* processVariable / processOutput: who was called, what it returned
    pfFile,      \* processFile: the file at filePath
    pfPc,        \* processFile: the stage to run next, or "Returned"
    pfRawHcl,    \* processFile: rawHcl
    pfBody,      \* processFile / processTerraform: body
    pfNext,      \* processTerraform: the index of the block the loop visits next
    pfAcc,       \* processTerraform: terraform and diagErrs so far
    pfRet,       \* processFile: the collection and the error returned
    pfStages,    \* processFile: the stages entered so far, in order
    psNode,      \* Parse: what the file system holds at filePath
    psPc,        \* Parse: the step to run next, or "Done"
    psFiles,     \* Parse: files, the listing ioutil.ReadDir returned
    psNext,      \* Parse: the index of the entry the loop visits next
    psTerraform, \* Parse: terraform, the collection merged so far
    psNoTerraform, \* Parse: noTerraform
    psRet,       \* Parse: the collection and the error returned
    psProcessed, \* Parse: the indexes of the entries passed to processFile, in order
    psEarlier,   \* Parse: what the earlier calls returned, in call order
    importantBlocksSchema, \* the package variable importantBlocksSchema
    variableBlockSchema,   \* the package variable variableBlockSchema
    outputBlockSchema      \* the package variable outputBlockSchema

dvars == <<cdIn, cdOut>>
evars == <<exIn, exOut>>
fvars == <<pfFile, pfPc, pfRawHcl, pfBody, pfNext, pfAcc, pfRet, pfStages>>
pvars == <<psNode, psPc, psFiles, psNext, psTerraform, psNoTerraform, psRet, psProcessed,
           psEarlier>>
svars == <<importantBlocksSchema, variableBlockSchema, outputBlockSchema>>
vars == <<dvars, evars, fvars, pvars, svars>>

(***************************************************************************)
(* Strings.  strings.ToLower and strings.Contains, character by character. *)
(***************************************************************************)
UpperLetters == "ABCDEFGHIJKLMNOPQRSTUVWXYZ"
LowerLetters == "abcdefghijklmnopqrstuvwxyz"

CharAt(s, i) == SubSeq(s, i, i)

\* The lower-case letter of every upper-case letter.
LowerOf ==
    [c \in {CharAt(UpperLetters, i) : i \in 1..Len(UpperLetters)} |->
        CharAt(LowerLetters, CHOOSE i \in 1..Len(UpperLetters) : CharAt(UpperLetters, i) = c)]

LowerChar(c) == IF c \in DOMAIN LowerOf THEN LowerOf[c] ELSE c

RECURSIVE ToLower(_)
ToLower(s) ==
    IF Len(s) = 0 THEN ""
    ELSE ToLower(SubSeq(s, 1, Len(s) - 1)) \o LowerChar(CharAt(s, Len(s)))

\* strings.Contains(s, substr): substr occurs in s at some offset; the empty
\* string occurs in every string.
Contains(s, substr) ==
    \E i \in 0..(Len(s) - Len(substr)) : SubSeq(s, i + 1, i + Len(substr)) = substr

(***************************************************************************)
(* Diagnostics.  An hcl.Diagnostic is its severity and the message its     *)
(* Error() method gives; hcl.Diagnostics is a sequence of them.            *)
(***************************************************************************)
DiagError == "error"
DiagWarning == "warning"
Severities == {DiagError, DiagWarning}

Diagnostic(sev, msg) == [Severity |-> sev, Message |-> msg]

\* diag.Error()
DiagMessage(diag) == diag.Message

\* hcl.Diagnostics.HasErrors: some diagnostic has the error severity.
HasErrors(diags) == \E i \in 1..Len(diags) : diags[i].Severity = DiagError

DiagIgnoreUnsupportedBlock == "unsupported block"
DiagIgnoreUnsupportedAttribute == "unsupported attribute"
DiagIgnoreUnsupportedArgument == "unsupported argument"

\* The messages of the diagnostics of the HCL library, by their summary.
MsgUnsupportedBlock == "Unsupported block type"
MsgUnsupportedArgument == "Unsupported argument"
MsgUnsuitableValue == "Unsuitable value type"
MsgWarning == "Deprecated syntax"
MsgInvalidSyntax == "Invalid expression"

\* strings.ToLower of the messages of the library and of the three allowed
\* errors, computed once.
LoweredMessages ==
    [s \in {MsgUnsupportedBlock, MsgUnsupportedArgument, MsgUnsuitableValue, MsgWarning,
            MsgInvalidSyntax, DiagIgnoreUnsupportedBlock, DiagIgnoreUnsupportedAttribute,
            DiagIgnoreUnsupportedArgument} |-> ToLower(s)]

\* strings.ToLower as checkDiagnostics calls it.
StringsToLower(s) == IF s \in DOMAIN LoweredMessages THEN LoweredMessages[s] ELSE ToLower(s)

\* The inner loop of checkDiagnostics: the flag `ignored` of one diagnostic.
Ignored(diag, allowedErrors) ==
    \E j \in 1..Len(allowedErrors) :
        Contains(StringsToLower(DiagMessage(diag)), StringsToLower(allowedErrors[j]))

\* The outer loop of checkDiagnostics: diagErrors after the diagnostics
\* diags[1..n] have been visited.
RECURSIVE FilterLoop(_, _, _)
FilterLoop(diags, allowedErrors, n) ==
    IF n = 0 THEN <<>>
    ELSE LET diagErrors == FilterLoop(diags, allowedErrors, n - 1)
         IN  IF ~Ignored(diags[n], allowedErrors)
             THEN Append(diagErrors, diags[n])
             ELSE diagErrors

\* A deviation: the empty allow-list is not special and the list is filtered
\* only by the error guard.
checkDiagnosticsNoEmptyCase(diags, allowedErrors) ==
    IF HasErrors(diags) THEN FilterLoop(diags, allowedErrors, Len(diags)) ELSE <<>>

checkDiagnostics(diags, allowedErrors) ==
    IF Len(allowedErrors) = 0 THEN diags
    ELSE IF HasErrors(diags) THEN FilterLoop(diags, allowedErrors, Len(diags))
    ELSE <<>>

(***************************************************************************)
(* Schemas.  A body schema names the block types or the attribute names    *)
(* that Body.Content keeps.  The three schemas are package variables: the  *)
(* functions read them when they are called.                               *)
(***************************************************************************)
BodySchema(blocks, attributes) == [Blocks |-> blocks, Attributes |-> attributes]

\* The values the package variables are declared with.
DeclaredImportantBlocksSchema == BodySchema({"variable", "output"}, {})
DeclaredVariableBlockSchema == BodySchema({}, {"type", "default"})
DeclaredOutputBlockSchema == BodySchema({}, {"type", "value"})

SchemasAsDeclared ==
    /\ importantBlocksSchema = DeclaredImportantBlocksSchema
    /\ variableBlockSchema = DeclaredVariableBlockSchema
    /\ outputBlockSchema = DeclaredOutputBlockSchema

(***************************************************************************)
(* Documents.  A body is the sequence of its attributes (name, expression) *)
(* and of its blocks (type, labels, body), in source order, and the        *)
(* diagnostics Content reports for it besides the two "unsupported" ones   *)
(* (`other`).  An expression is what gohcl.DecodeExpression makes of it:   *)
(* its diagnostics and the string it decodes to.                           *)
(***************************************************************************)

\* Body.Content(schema) of the HCL library: the attributes and the blocks
\* the schema names, an "unsupported" error for every other one.
BodyContent(body, schema) ==
    LET known(a) == a.Name \in schema.Attributes
        wanted(b) == b.Type \in schema.Blocks
        argDiag(a) == Diagnostic(DiagError, MsgUnsupportedArgument)
        blockDiag(b) == Diagnostic(DiagError, MsgUnsupportedBlock)
        unknownAttrs == SelectSeq(body.Attributes, LAMBDA a : ~known(a))
        unknownBlocks == SelectSeq(body.Blocks, LAMBDA b : ~wanted(b))
    IN  [Attributes |-> SelectSeq(body.Attributes, known),
         Blocks |-> SelectSeq(body.Blocks, wanted),
         diags |-> [i \in 1..Len(unknownAttrs) |-> argDiag(unknownAttrs[i])]
                   \o [i \in 1..Len(unknownBlocks) |-> blockDiag(unknownBlocks[i])]
                   \o body.other]

\* blockContent.Attributes[name]: whether it is there (`ok`), and its expression.
HasAttribute(content, name) ==
    \E i \in 1..Len(content.Attributes) : content.Attributes[i].Name = name

AttributeExpr(content, name) ==
    content.Attributes[CHOOSE i \in 1..Len(content.Attributes) :
                           content.Attributes[i].Name = name].Expr

\* A deviation: every expression decodes, to whatever it left in the target.
DecodeExpressionNeverFails(expr) == [diags |-> <<>>, value |-> expr.value]

\* gohcl.DecodeExpression(expr, nil, &target): the diagnostics it returns and
\* the string it leaves in the target.
DecodeExpression(expr) == [diags |-> expr.diags, value |-> expr.value]

(***************************************************************************)
(* Records.  A nil *Variable or *Output is Nil; the zero string is "".     *)
(***************************************************************************)
Nil == [nil |-> TRUE]
Variable(name, default) == [Name |-> name, Default |-> default]
Output(name, value) == [Name |-> name, Value |-> value]

\* What an extractor returns, with the library calls it made on the way.
Extracted(record, diagErr, calls) == [record |-> record, diagErr |-> diagErr, calls |-> calls]

\* A deviation: when the default does not decode, the record made so far is
\* returned with the diagnostics.
processVariableKeepsRecord(block) ==
    IF block.Type # "variable" THEN Extracted(Nil, <<>>, <<>>)
    ELSE
    LET blockContent == BodyContent(block.Body, variableBlockSchema)
        diagErr == checkDiagnostics(blockContent.diags,
                       <<DiagIgnoreUnsupportedAttribute, DiagIgnoreUnsupportedArgument>>)
    IN  IF diagErr # <<>> THEN Extracted(Nil, diagErr, <<"Content">>)
        ELSE IF HasAttribute(blockContent, "default")
        THEN LET decoded == DecodeExpression(AttributeExpr(blockContent, "default"))
                 attributeDiags == decoded.diags
             IN  Extracted(Variable(block.Labels[1], decoded.value),
                           checkDiagnostics(attributeDiags, <<>>),
                           <<"Content", "DecodeExpression">>)
        ELSE Extracted(Variable(block.Labels[1], ""), <<>>, <<"Content">>)

\* A deviation: the block's type is not looked at.
processVariableNoTypeGuard(block) ==
    LET blockContent == BodyContent(block.Body, variableBlockSchema)
        diagErr == checkDiagnostics(blockContent.diags,
                       <<DiagIgnoreUnsupportedAttribute, DiagIgnoreUnsupportedArgument>>)
    IN  IF diagErr # <<>> THEN Extracted(Nil, diagErr, <<"Content">>)
        ELSE Extracted(Variable(block.Labels[1], ""), <<>>, <<"Content">>)

processVariable(block) ==
    IF block.Type # "variable" THEN Extracted(Nil, <<>>, <<>>)
    ELSE
    LET blockContent == BodyContent(block.Body, variableBlockSchema)
        diagErr == checkDiagnostics(blockContent.diags,
                       <<DiagIgnoreUnsupportedAttribute, DiagIgnoreUnsupportedArgument>>)
    IN  IF diagErr # <<>> THEN Extracted(Nil, diagErr, <<"Content">>)
        ELSE IF HasAttribute(blockContent, "default")
        THEN LET decoded == DecodeExpression(AttributeExpr(blockContent, "default"))
                 attributeDiags == decoded.diags
             IN  IF attributeDiags # <<>>
                 THEN Extracted(Nil, checkDiagnostics(attributeDiags, <<>>),
                                <<"Content", "DecodeExpression">>)
                 ELSE Extracted(Variable(block.Labels[1], decoded.value), <<>>,
                                <<"Content", "DecodeExpression">>)
        ELSE Extracted(Variable(block.Labels[1], ""), <<>>, <<"Content">>)

\* A deviation: the block's type is not looked at.
processOutputNoTypeGuard(block) ==
    LET blockContent == BodyContent(block.Body, outputBlockSchema)
        diagErr == checkDiagnostics(blockContent.diags,
                       <<DiagIgnoreUnsupportedAttribute, DiagIgnoreUnsupportedArgument>>)
    IN  IF diagErr # <<>> THEN Extracted(Nil, diagErr, <<"Content">>)
        ELSE IF HasAttribute(blockContent, "value")
        THEN LET decoded == DecodeExpression(AttributeExpr(blockContent, "value"))
                 attributeDiags == decoded.diags
             IN  IF attributeDiags # <<>>
                 THEN Extracted(Nil, checkDiagnostics(attributeDiags, <<>>),
                                <<"Content", "DecodeExpression">>)
                 ELSE Extracted(Output(block.Labels[1], decoded.value), <<>>,
                                <<"Content", "DecodeExpression">>)
        ELSE Extracted(Output(block.Labels[1], ""), <<>>, <<"Content">>)

\* A deviation: the value attribute is not decoded into the record.
processOutputDropsValue(block) ==
    IF block.Type # "output" THEN Extracted(Nil, <<>>, <<>>)
    ELSE
    LET blockContent == BodyContent(block.Body, outputBlockSchema)
        diagErr == checkDiagnostics(blockContent.diags,
                       <<DiagIgnoreUnsupportedAttribute, DiagIgnoreUnsupportedArgument>>)
    IN  IF diagErr # <<>> THEN Extracted(Nil, diagErr, <<"Content">>)
        ELSE Extracted(Output(block.Labels[1], ""), <<>>, <<"Content">>)

processOutput(block) ==
    IF block.Type # "output" THEN Extracted(Nil, <<>>, <<>>)
    ELSE
    LET blockContent == BodyContent(block.Body, outputBlockSchema)
        diagErr == checkDiagnostics(blockContent.diags,
                       <<DiagIgnoreUnsupportedAttribute, DiagIgnoreUnsupportedArgument>>)
    IN  IF diagErr # <<>> THEN Extracted(Nil, diagErr, <<"Content">>)
        ELSE IF HasAttribute(blockContent, "value")
        THEN LET decoded == DecodeExpression(AttributeExpr(blockContent, "value"))
                 attributeDiags == decoded.diags
             IN  IF attributeDiags # <<>>
                 THEN Extracted(Nil, checkDiagnostics(attributeDiags, <<>>),
                                <<"Content", "DecodeExpression">>)
                 ELSE Extracted(Output(block.Labels[1], decoded.value), <<>>,
                                <<"Content", "DecodeExpression">>)
        ELSE Extracted(Output(block.Labels[1], ""), <<>>, <<"Content">>)

(***************************************************************************)
(* Errors.  A Go error is nil, a file-system error, hcl.Diagnostics        *)
(* returned as an error, or the error Parse makes with fmt.Errorf.         *)
(***************************************************************************)
NoError == [kind |-> "nil"]
OsError(op) == [kind |-> "os", op |-> op]
DiagnosticsError(diags) == [kind |-> "diagnostics", diags |-> diags]
NoTerraformError == [kind |-> "fmt", msg |-> "no Terraform files found in directory"]

\* Terraform{}: both slices nil.
EmptyTerraform == [Variables |-> <<>>, Outputs |-> <<>>]

\* A deviation: the document the parser made is returned with its error.
loadFileKeepsDocument(file) ==
    IF file.readErr # NoError THEN [rawHcl |-> Nil, err |-> file.readErr]
    ELSE IF HasErrors(file.parseDiags)
         THEN [rawHcl |-> [Body |-> file.Body], err |-> DiagnosticsError(file.parseDiags)]
         ELSE [rawHcl |-> [Body |-> file.Body], err |-> NoError]

\* loadFile.  A file is the error os.ReadFile gives for it, the diagnostics
\* hclsyntax.ParseConfig gives for its bytes and the body they parse to.
loadFile(file) ==
    IF file.readErr # NoError THEN [rawHcl |-> Nil, err |-> file.readErr]
    ELSE IF HasErrors(file.parseDiags)
         THEN [rawHcl |-> Nil, err |-> DiagnosticsError(file.parseDiags)]
         ELSE [rawHcl |-> [Body |-> file.Body], err |-> NoError]

\* A deviation: the diagnostics of the match are not filtered.
processSchemaUnfiltered(rawHcl, schema) ==
    LET blocks == BodyContent(rawHcl.Body, schema)
        diagErrs == checkDiagnostics(blocks.diags, <<>>)
    IN  IF diagErrs # <<>> THEN [body |-> Nil, diags |-> diagErrs]
        ELSE [body |-> blocks, diags |-> <<>>]

processSchema(rawHcl, schema) ==
    LET blocks == BodyContent(rawHcl.Body, schema)
        diagErrs == checkDiagnostics(blocks.diags, <<DiagIgnoreUnsupportedBlock>>)
    IN  IF diagErrs # <<>> THEN [body |-> Nil, diags |-> diagErrs]
        ELSE [body |-> blocks, diags |-> <<>>]

\* A deviation: once a block has failed, the blocks after it are skipped.
DispatchBlockStopsAfterFailure(acc, block) ==
    IF acc.diagErrs # <<>> THEN acc
    ELSE
    CASE block.Type = "variable" ->
            LET r == processVariable(block)
            IN  IF r.diagErr # <<>>
                THEN [acc EXCEPT !.diagErrs = @ \o r.diagErr]
                ELSE [acc EXCEPT !.terraform.Variables = Append(@, r.record)]
      [] block.Type = "output" ->
            LET r == processOutput(block)
            IN  IF r.diagErr # <<>>
                THEN [acc EXCEPT !.diagErrs = @ \o r.diagErr]
                ELSE [acc EXCEPT !.terraform.Outputs = Append(@, r.record)]
      [] OTHER -> acc

\* One iteration of the loop of processTerraform: acc is terraform and
\* diagErrs before the block, the result is both after it.
DispatchBlock(acc, block) ==
    CASE block.Type = "variable" ->
            LET r == processVariable(block)
            IN  IF r.diagErr # <<>>
                THEN [acc EXCEPT !.diagErrs = @ \o r.diagErr]
                ELSE [acc EXCEPT !.terraform.Variables = Append(@, r.record)]
      [] block.Type = "output" ->
            LET r == processOutput(block)
            IN  IF r.diagErr # <<>>
                THEN [acc EXCEPT !.diagErrs = @ \o r.diagErr]
                ELSE [acc EXCEPT !.terraform.Outputs = Append(@, r.record)]
      [] OTHER -> acc

NoBlocksDone == [terraform |-> EmptyTerraform, diagErrs |-> <<>>]

\* processTerraform after the first n blocks of body.
RECURSIVE TerraformLoop(_, _)
TerraformLoop(body, n) ==
    IF n = 0 THEN NoBlocksDone
    ELSE DispatchBlock(TerraformLoop(body, n - 1), body.Blocks[n])

processTerraform(body) == TerraformLoop(body, Len(body.Blocks))

Returned(terraform, err) == [terraform |-> terraform, err |-> err]

\* The end of processFile, from the result of processTerraform.
\* A deviation: the collection gathered so far is returned with the error.
FileResultKeepsPartial(acc) ==
    IF HasErrors(acc.diagErrs)
    THEN Returned(acc.terraform, DiagnosticsError(acc.diagErrs))
    ELSE Returned(acc.terraform, NoError)

FileResult(acc) ==
    IF HasErrors(acc.diagErrs)
    THEN Returned(EmptyTerraform, DiagnosticsError(acc.diagErrs))
    ELSE Returned(acc.terraform, NoError)

processFile(file) ==
    LET loaded == loadFile(file)
    IN  IF loaded.err # NoError THEN Returned(EmptyTerraform, loaded.err)
        ELSE LET matched == processSchema(loaded.rawHcl, importantBlocksSchema)
             IN  IF matched.diags # <<>>
                 THEN Returned(EmptyTerraform, DiagnosticsError(matched.diags))
                 ELSE FileResult(processTerraform(matched.body))

\* strings.HasSuffix
HasSuffix(s, suffix) ==
    /\ Len(s) >= Len(suffix)
    /\ SubSeq(s, Len(s) - Len(suffix) + 1, Len(s)) = suffix

\* The two appends of the loop of Parse.
\* A deviation: the child's records are put before the ones merged so far.
MergePrepends(terraform, childTerraform) ==
    [Variables |-> childTerraform.Variables \o terraform.Variables,
     Outputs |-> childTerraform.Outputs \o terraform.Outputs]

Merge(terraform, childTerraform) ==
    [Variables |-> terraform.Variables \o childTerraform.Variables,
     Outputs |-> terraform.Outputs \o childTerraform.Outputs]

\* What Parse returns when processFile fails for an entry.
\* A deviation: the records merged so far are returned with the error.
ChildFailureKeepsMerged(terraform, childProcessErr) == Returned(terraform, childProcessErr)

ChildFailure(terraform, childProcessErr) == Returned(EmptyTerraform, childProcessErr)

\* What Parse returns after the loop.
\* A deviation: an empty collection, not noTerraform, makes the error.
DirectoryResultByEmptiness(noTerraform, terraform) ==
    IF terraform = EmptyTerraform THEN Returned(EmptyTerraform, NoTerraformError)
    ELSE Returned(terraform, NoError)

DirectoryResult(noTerraform, terraform) ==
    IF noTerraform THEN Returned(EmptyTerraform, NoTerraformError)
    ELSE Returned(terraform, NoError)

(***************************************************************************)
(* Input sets of the pipeline: expressions, block bodies and blocks.       *)
(***************************************************************************)
ExprString(v) == [diags |-> <<>>, value |-> v]
\* An object or list literal: it does not convert to a string.
ExprObject == [diags |-> <<Diagnostic(DiagError, MsgUnsuitableValue)>>, value |-> ""]
\* An expression that decodes, with a warning.
ExprWarned(v) == [diags |-> <<Diagnostic(DiagWarning, MsgWarning)>>, value |-> v]

Attribute(name, expr) == [Name |-> name, Expr |-> expr]
Body(attributes, blocks, other) == [Attributes |-> attributes, Blocks |-> blocks, other |-> other]
Block(type, label, body) == [Type |-> type, Labels |-> <<label>>, Body |-> body]

EmptyBody == Body(<<>>, <<>>, <<>>)

\* The bodies of a block whose attribute of interest is named attr.
BlockBodies(attr) ==
    { EmptyBody,
      \* attr = "hello"
      Body(<<Attribute(attr, ExprString("hello"))>>, <<>>, <<>>),
      \* type, description and attr, as in test.tf
      Body(<<Attribute("type", ExprString("string")),
             Attribute("description", ExprString("text")),
             Attribute(attr, ExprString("test"))>>, <<>>, <<>>),
      \* sensitive alone
      Body(<<Attribute("sensitive", ExprString("true"))>>, <<>>, <<>>),
      \* a nested block, such as validation { }
      Body(<<>>, <<Block("validation", "", EmptyBody)>>, <<>>),
      \* attr = { an object }
      Body(<<Attribute(attr, ExprObject)>>, <<>>, <<>>),
      \* description, and a warning of the library
      Body(<<Attribute("description", ExprString("text"))>>, <<>>,
           <<Diagnostic(DiagWarning, MsgWarning)>>),
      \* attr decodes with a warning
      Body(<<Attribute(attr, ExprWarned("hello"))>>, <<>>, <<>>) }

BlockTypes == {"variable", "output", "resource"}
\* The first label of a block: a name, another one, and the empty label of
\* variable "" { }, which the syntax allows.
BlockLabels == {"x", "y", ""}

AnyBlocks ==
    {Block(type, label, body) : type \in BlockTypes, label \in BlockLabels,
                                body \in BlockBodies("default") \cup BlockBodies("value")}

\* The top-level blocks of a file: variables, outputs, a block of a type the
\* top-level schema does not name, a variable of another name and a variable
\* whose label is empty.
FileBlocks ==
    {Block("variable", "x", body) : body \in BlockBodies("default")}
    \cup {Block("output", "x", body) : body \in BlockBodies("value")}
    \cup {Block("resource", "x", EmptyBody)}
    \cup {Block("variable", "y", Body(<<Attribute("default", ExprString("hello"))>>, <<>>, <<>>))}
    \cup {Block("variable", "", EmptyBody)}

MaxBlocks == 2       \* top-level blocks of a file

SeqsUpTo(S, n) == UNION {[1..k -> S] : k \in 0..n}

\* What a file holds at its top level besides blocks: nothing, an attribute,
\* or something the library warns about.
TopLevelRest ==
    { [Attributes |-> <<>>, other |-> <<>>],
      [Attributes |-> <<Attribute("region", ExprString("eu"))>>, other |-> <<>>],
      [Attributes |-> <<>>, other |-> <<Diagnostic(DiagWarning, MsgWarning)>>] }

Documents ==
    {Body(rest.Attributes, blocks, rest.other) :
        rest \in TopLevelRest, blocks \in SeqsUpTo(FileBlocks, MaxBlocks)}

File(readErr, parseDiags, body) == [readErr |-> readErr, parseDiags |-> parseDiags, Body |-> body]

UnreadableFile == File(OsError("open"), <<>>, EmptyBody)
MalformedFile == File(NoError, <<Diagnostic(DiagError, MsgInvalidSyntax)>>, EmptyBody)

\* A file whose bytes parse in part: the library reports an error and hands
\* back what it made of them.
PartialFile ==
    File(NoError, <<Diagnostic(DiagError, MsgInvalidSyntax)>>,
         Body(<<>>, <<Block("variable", "x", EmptyBody)>>, <<>>))
\* A file whose bytes parse, with a warning of the library.
WarnedFile ==
    File(NoError, <<Diagnostic(DiagWarning, MsgWarning)>>,
         Body(<<>>, <<Block("variable", "x", EmptyBody)>>, <<>>))

Files ==
    {UnreadableFile, MalformedFile, PartialFile, WarnedFile}
    \cup {File(NoError, <<>>, doc) : doc \in Documents}

(***************************************************************************)
(* Input sets of Parse: the files of a directory and what a path names.    *)
(***************************************************************************)
HclFile(attributes, blocks) == File(NoError, <<>>, Body(attributes, blocks, <<>>))

VarHello == Block("variable", "x", Body(<<Attribute("default", ExprString("hello"))>>, <<>>, <<>>))
VarTest == Block("variable", "x",
               Body(<<Attribute("type", ExprString("string")),
                      Attribute("description", ExprString("text")),
                      Attribute("default", ExprString("test"))>>, <<>>, <<>>))
VarSensitive == Block("variable", "x", Body(<<Attribute("sensitive", ExprString("true"))>>, <<>>, <<>>))
VarObject == Block("variable", "x", Body(<<Attribute("default", ExprObject)>>, <<>>, <<>>))
VarWarned == Block("variable", "x", Body(<<Attribute("default", ExprWarned("hello"))>>, <<>>, <<>>))
OutHello == Block("output", "x", Body(<<Attribute("value", ExprString("hello"))>>, <<>>, <<>>))
OutEmpty == Block("output", "x", EmptyBody)
Resource == Block("resource", "x", EmptyBody)
VarOther == Block("variable", "y", Body(<<Attribute("default", ExprString("hello"))>>, <<>>, <<>>))

CombinedFile == HclFile(<<>>, <<VarHello, OutHello>>)

\* The files a directory entry may be: unreadable, malformed, without blocks,
\* with unknown blocks only, with variables and outputs, with a block that
\* fails, with a block that yields warnings only, with a top-level attribute,
\* with one name declared twice around another name.
DirFiles ==
    { UnreadableFile, MalformedFile,
      HclFile(<<>>, <<>>),
      HclFile(<<>>, <<Resource>>),
      CombinedFile,
      HclFile(<<>>, <<VarTest, VarSensitive>>),
      HclFile(<<>>, <<OutHello, Resource, OutEmpty>>),
      HclFile(<<>>, <<VarHello, VarObject>>),
      HclFile(<<>>, <<VarWarned, VarTest>>),
      HclFile(<<Attribute("region", ExprString("eu"))>>, <<VarHello>>),
      HclFile(<<>>, <<VarHello, VarOther, VarTest, OutHello, OutEmpty>>) }

\* The names of a directory's entries, in the order ioutil.ReadDir sorts
\* them, and whether a name with that index is given any of DirFiles.
EntryNames == <<".tf", "a.tf", "b.tfvars", "c.tf", "modules">>
\* An entry of a listing: its name, whether it is a directory, what reading
\* it as a file gives, and the entries it holds when it is a directory.
Entry(name, file) == [Name |-> name, IsDir |-> FALSE, file |-> file, entries |-> <<>>]

\* What os.ReadFile gives for a path that is a directory.
DirectoryAsFile == File(OsError("read"), <<>>, EmptyBody)

SubDirectory(name, entries) ==
    [Name |-> name, IsDir |-> TRUE, file |-> DirectoryAsFile, entries |-> entries]

MaxFiles == 3        \* entries of a directory

\* The listings: up to MaxFiles entries with increasing names; an entry whose
\* name ends in ".tf" holds any of DirFiles, another one holds CombinedFile.
EntryFiles(name) == IF HasSuffix(name, ".tf") THEN DirFiles ELSE {CombinedFile}

\* The names that may be those of a subdirectory, which holds a Terraform
\* file of its own.
SubDirectoryNames == {"c.tf", "modules"}

EntriesNamed(name) ==
    (IF name = "modules" THEN {} ELSE {Entry(name, file) : file \in EntryFiles(name)})
    \cup (IF name \in SubDirectoryNames
          THEN {SubDirectory(name, <<Entry("main.tf", CombinedFile)>>)}
          ELSE {})

RECURSIVE ListingsFrom(_, _)
ListingsFrom(first, n) ==
    IF n = 0 \/ first > Len(EntryNames) THEN {<<>>}
    ELSE ListingsFrom(first + 1, n)
         \cup {<<entry>> \o rest :
                  entry \in EntriesNamed(EntryNames[first]), rest \in ListingsFrom(first + 1, n - 1)}

Listings == ListingsFrom(1, MaxFiles)

\* What a path names: nothing (os.Stat fails), a directory with its entries
\* (which ioutil.ReadDir may fail to list), or a file; and the path's last
\* element.
Node(name, statErr, isDir, readDirErr, entries, file) ==
    [Name |-> name, statErr |-> statErr, IsDir |-> isDir, readDirErr |-> readDirErr,
     entries |-> entries, file |-> file]

\* The names of a path that is a single file.
FileNames == {"main.tf", "notes.txt"}

Nodes ==
    {Node("missing", OsError("stat"), FALSE, NoError, <<>>, UnreadableFile)}
    \cup {Node("dir", NoError, TRUE, NoError, entries, UnreadableFile) : entries \in Listings}
    \cup {Node("dir", NoError, TRUE, OsError("readdir"), <<Entry("a.tf", CombinedFile)>>,
                UnreadableFile)}
    \cup {Node(name, NoError, FALSE, NoError, <<>>, file) : name \in FileNames, file \in DirFiles}

(***************************************************************************)
(* Bounds and input sets of the checkDiagnostics specification.            *)
(***************************************************************************)
MaxDiags == 2        \* diagnostics in a list
MaxAllowed == 2      \* entries of an allow-list

\* Messages and allow-list entries in both cases: an entry that is a proper
\* substring ("A" in "aB"), one that differs only in case ("Ab", "aB"), one
\* that occurs nowhere ("ba"), the empty entry and the empty message.
SmallMessages == {"", "a", "B", "aB"}
SmallAllowed == {"", "A", "b", "Ab", "ba"}

SmallDiagnostics == {Diagnostic(sev, msg) : sev \in Severities, msg \in SmallMessages}

NotCalled == [called |-> FALSE, diagErrors |-> <<>>]
NoDiagCall == cdIn = [diags |-> <<>>, allowedErrors |-> <<>>] /\ cdOut = NotCalled

NotExtracted == [called |-> "none", record |-> Nil, diagErr |-> <<>>, calls |-> <<>>]
NoExtractCall == exIn = Block("none", "", EmptyBody) /\ exOut = NotExtracted

NotReturned == Returned(EmptyTerraform, NoError)
NoFileCall ==
    /\ pfFile = UnreadableFile
    /\ pfPc = "Idle"
    /\ pfRawHcl = Nil
    /\ pfBody = Nil
    /\ pfNext = 1
    /\ pfAcc = NoBlocksDone
    /\ pfRet = NotReturned
    /\ pfStages = <<>>

NoParseCall ==
    /\ psNode = Node("missing", OsError("stat"), FALSE, NoError, <<>>, UnreadableFile)
    /\ psPc = "Idle"
    /\ psFiles = <<>>
    /\ psNext = 1
    /\ psTerraform = EmptyTerraform
    /\ psNoTerraform = TRUE
    /\ psRet = NotReturned
    /\ psProcessed = <<>>
    /\ psEarlier = <<>>

InitDiag ==
    /\ cdIn \in [diags : SeqsUpTo(SmallDiagnostics, MaxDiags),
                 allowedErrors : SeqsUpTo(SmallAllowed, MaxAllowed)]
    /\ cdOut = NotCalled
    /\ NoExtractCall
    /\ NoFileCall
    /\ NoParseCall
    /\ SchemasAsDeclared

CallCheckDiagnostics ==
    /\ ~cdOut.called
    /\ cdOut' = [called |-> TRUE,
                 diagErrors |-> checkDiagnostics(cdIn.diags, cdIn.allowedErrors)]
    /\ UNCHANGED <<cdIn, evars, fvars, pvars, svars>>

NextDiag == CallCheckDiagnostics

SpecDiag == InitDiag /\ [][NextDiag]_vars

(***************************************************************************)
(* The extractors on their own: one block, passed to one extractor.        *)
(***************************************************************************)
InitExtract ==
    /\ exIn \in AnyBlocks
    /\ exOut = NotExtracted
    /\ NoDiagCall
    /\ NoFileCall
    /\ NoParseCall
    /\ SchemasAsDeclared

WithCaller(name, r) ==
    [called |-> name, record |-> r.record, diagErr |-> r.diagErr, calls |-> r.calls]

CallProcessVariable ==
    /\ exOut.called = "none"
    /\ exOut' = WithCaller("processVariable", processVariable(exIn))
    /\ UNCHANGED <<exIn, dvars, fvars, pvars, svars>>

CallProcessOutput ==
    /\ exOut.called = "none"
    /\ exOut' = WithCaller("processOutput", processOutput(exIn))
    /\ UNCHANGED <<exIn, dvars, fvars, pvars, svars>>

NextExtract == CallProcessVariable \/ CallProcessOutput

SpecExtract == InitExtract /\ [][NextExtract]_vars

(***************************************************************************)
(* processFile on one file, stage by stage.                                *)
(***************************************************************************)
InitFile ==
    /\ pfFile \in Files
    /\ pfPc = "Load"
    /\ pfRawHcl = Nil
    /\ pfBody = Nil
    /\ pfNext = 1
    /\ pfAcc = NoBlocksDone
    /\ pfRet = NotReturned
    /\ pfStages = <<>>
    /\ NoDiagCall
    /\ NoExtractCall
    /\ NoParseCall
    /\ SchemasAsDeclared

\* terraform := Terraform{}; rawHcl, err := loadFile(filePath)
Load ==
    /\ pfPc = "Load"
    /\ pfStages' = Append(pfStages, "Load")
    /\ LET loaded == loadFile(pfFile)
       IN  /\ pfRawHcl' = loaded.rawHcl
           /\ IF loaded.err # NoError
              THEN pfPc' = "Returned" /\ pfRet' = Returned(EmptyTerraform, loaded.err)
              ELSE pfPc' = "MatchTop" /\ UNCHANGED pfRet
    /\ UNCHANGED <<pfFile, pfBody, pfNext, pfAcc, dvars, evars, pvars, svars>>

\* A deviation: the diagnostics of the match are not looked at, the blocks
\* it matched are dispatched.
MatchTopGoesOn ==
    /\ pfPc = "MatchTop"
    /\ pfStages' = Append(pfStages, "MatchTop")
    /\ pfBody' = BodyContent(pfRawHcl.Body, importantBlocksSchema)
    /\ pfPc' = "DispatchBlocks"
    /\ UNCHANGED <<pfFile, pfRawHcl, pfNext, pfAcc, pfRet, dvars, evars, pvars, svars>>

\* body, diagErrs := processSchema(rawHcl, importantBlocksSchema)
MatchTop ==
    /\ pfPc = "MatchTop"
    /\ pfStages' = Append(pfStages, "MatchTop")
    /\ LET matched == processSchema(pfRawHcl, importantBlocksSchema)
       IN  /\ pfBody' = matched.body
           /\ IF matched.diags # <<>>
              THEN /\ pfPc' = "Returned"
                   /\ pfRet' = Returned(EmptyTerraform, DiagnosticsError(matched.diags))
              ELSE pfPc' = "DispatchBlocks" /\ UNCHANGED pfRet
    /\ UNCHANGED <<pfFile, pfRawHcl, pfNext, pfAcc, dvars, evars, pvars, svars>>

\* A deviation: when the blocks are exhausted the top level is matched again.
DispatchBlocksRematches ==
    /\ pfPc = "DispatchBlocks"
    /\ pfStages' = IF pfNext = 1 THEN Append(pfStages, "DispatchBlocks") ELSE pfStages
    /\ IF pfNext <= Len(pfBody.Blocks)
       THEN /\ pfAcc' = DispatchBlock(pfAcc, pfBody.Blocks[pfNext])
            /\ pfNext' = pfNext + 1
            /\ UNCHANGED pfPc
       ELSE /\ pfPc' = "MatchTop"
            /\ UNCHANGED <<pfAcc, pfNext>>
    /\ UNCHANGED <<pfFile, pfRawHcl, pfBody, pfRet, dvars, evars, pvars, svars>>

\* processTerraform(body): one iteration of its loop, or its return when the
\* blocks are exhausted.
DispatchBlocks ==
    /\ pfPc = "DispatchBlocks"
    /\ pfStages' = IF pfNext = 1 THEN Append(pfStages, "DispatchBlocks") ELSE pfStages
    /\ IF pfNext <= Len(pfBody.Blocks)
       THEN /\ pfAcc' = DispatchBlock(pfAcc, pfBody.Blocks[pfNext])
            /\ pfNext' = pfNext + 1
            /\ UNCHANGED pfPc
       ELSE /\ pfPc' = "Aggregate"
            /\ UNCHANGED <<pfAcc, pfNext>>
    /\ UNCHANGED <<pfFile, pfRawHcl, pfBody, pfRet, dvars, evars, pvars, svars>>

\* if diagErrs.HasErrors() { return Terraform{}, diagErrs }; return terraform, nil
Aggregate ==
    /\ pfPc = "Aggregate"
    /\ pfStages' = Append(pfStages, "Aggregate")
    /\ pfRet' = FileResult(pfAcc)
    /\ pfPc' = "Returned"
    /\ UNCHANGED <<pfFile, pfRawHcl, pfBody, pfNext, pfAcc, dvars, evars, pvars, svars>>

NextFile == Load \/ MatchTop \/ DispatchBlocks \/ Aggregate

SpecFile == InitFile /\ [][NextFile]_vars

(***************************************************************************)
(* Parse on one path, step by step.                                        *)
(***************************************************************************)
Init ==
    /\ psNode \in Nodes
    /\ psPc = "Stat"
    /\ psFiles = <<>>
    /\ psNext = 1
    /\ psTerraform = EmptyTerraform
    /\ psNoTerraform = TRUE
    /\ psRet = NotReturned
    /\ psProcessed = <<>>
    /\ psEarlier = <<>>
    /\ NoDiagCall
    /\ NoExtractCall
    /\ NoFileCall
    /\ SchemasAsDeclared

\* fileInfo, statErr := os.Stat(filePath)
Stat ==
    /\ psPc = "Stat"
    /\ IF psNode.statErr # NoError
       THEN psPc' = "Done" /\ psRet' = Returned(EmptyTerraform, psNode.statErr)
       ELSE /\ psPc' = IF psNode.IsDir THEN "ReadDir" ELSE "File"
            /\ UNCHANGED psRet
    /\ UNCHANGED <<psNode, psFiles, psNext, psTerraform, psNoTerraform, psProcessed,
                   psEarlier, dvars, evars, fvars, svars>>

\* A deviation: terraform is not made anew, it is what the frame held before.
ReadDirKeepsTerraform ==
    /\ psPc = "ReadDir"
    /\ psFiles' = IF psNode.readDirErr # NoError THEN <<>> ELSE psNode.entries
    /\ psNoTerraform' = TRUE
    /\ psNext' = 1
    /\ psPc' = "Loop"
    /\ UNCHANGED <<psNode, psTerraform, psRet, psProcessed, psEarlier, dvars, evars, fvars, svars>>

\* files, _ := ioutil.ReadDir(filePath); terraform := Terraform{}; noTerraform := true
ReadDir ==
    /\ psPc = "ReadDir"
    /\ psFiles' = IF psNode.readDirErr # NoError THEN <<>> ELSE psNode.entries
    /\ psTerraform' = EmptyTerraform
    /\ psNoTerraform' = TRUE
    /\ psNext' = 1
    /\ psPc' = "Loop"
    /\ UNCHANGED <<psNode, psRet, psProcessed, psEarlier, dvars, evars, fvars, svars>>

\* A deviation: an iteration that processes a file leaves the description
\* attribute in the schema of the output blocks.
VisitEntryWritesSchema ==
    /\ psPc = "Loop"
    /\ psNext <= Len(psFiles)
    /\ IF HasSuffix(psFiles[psNext].Name, ".tf")
       THEN LET child == processFile(psFiles[psNext].file)
            IN  /\ psNoTerraform' = FALSE
                /\ psProcessed' = Append(psProcessed, psNext)
                /\ IF child.err # NoError
                   THEN /\ psRet' = ChildFailure(psTerraform, child.err)
                        /\ psPc' = "Done"
                        /\ UNCHANGED <<psTerraform, psNext>>
                   ELSE /\ psTerraform' = Merge(psTerraform, child.terraform)
                        /\ psNext' = psNext + 1
                        /\ UNCHANGED <<psRet, psPc>>
       ELSE /\ psNext' = psNext + 1
            /\ UNCHANGED <<psNoTerraform, psProcessed, psRet, psPc, psTerraform>>
    /\ outputBlockSchema' =
           IF HasSuffix(psFiles[psNext].Name, ".tf")
           THEN BodySchema(outputBlockSchema.Blocks, outputBlockSchema.Attributes \cup {"description"})
           ELSE outputBlockSchema
    /\ UNCHANGED <<psNode, psFiles, psEarlier, dvars, evars, fvars,
                   importantBlocksSchema, variableBlockSchema>>

\* A deviation: an entry that is a directory is descended into, and the
\* records of the file it holds are merged.
VisitEntryDescends ==
    /\ psPc = "Loop"
    /\ psNext <= Len(psFiles)
    /\ IF psFiles[psNext].IsDir
       THEN /\ psTerraform' =
                   Merge(psTerraform, processFile(psFiles[psNext].entries[1].file).terraform)
            /\ psNext' = psNext + 1
            /\ UNCHANGED <<psNoTerraform, psProcessed, psRet, psPc>>
       ELSE IF HasSuffix(psFiles[psNext].Name, ".tf")
       THEN LET child == processFile(psFiles[psNext].file)
            IN  /\ psNoTerraform' = FALSE
                /\ psProcessed' = Append(psProcessed, psNext)
                /\ IF child.err # NoError
                   THEN /\ psRet' = ChildFailure(psTerraform, child.err)
                        /\ psPc' = "Done"
                        /\ UNCHANGED <<psTerraform, psNext>>
                   ELSE /\ psTerraform' = Merge(psTerraform, child.terraform)
                        /\ psNext' = psNext + 1
                        /\ UNCHANGED <<psRet, psPc>>
       ELSE /\ psNext' = psNext + 1
            /\ UNCHANGED <<psNoTerraform, psProcessed, psRet, psPc, psTerraform>>
    /\ UNCHANGED <<psNode, psFiles, psEarlier, dvars, evars, fvars, svars>>

\* One iteration of the loop over files.
VisitEntry ==
    /\ psPc = "Loop"
    /\ psNext <= Len(psFiles)
    /\ IF HasSuffix(psFiles[psNext].Name, ".tf")
       THEN LET child == processFile(psFiles[psNext].file)
            IN  /\ psNoTerraform' = FALSE
                /\ psProcessed' = Append(psProcessed, psNext)
                /\ IF child.err # NoError
                   THEN /\ psRet' = ChildFailure(psTerraform, child.err)
                        /\ psPc' = "Done"
                        /\ UNCHANGED <<psTerraform, psNext>>
                   ELSE /\ psTerraform' = Merge(psTerraform, child.terraform)
                        /\ psNext' = psNext + 1
                        /\ UNCHANGED <<psRet, psPc>>
       ELSE /\ psNext' = psNext + 1
            /\ UNCHANGED <<psNoTerraform, psProcessed, psRet, psPc, psTerraform>>
    /\ UNCHANGED <<psNode, psFiles, psEarlier, dvars, evars, fvars, svars>>

\* After the loop: the noTerraform error, or the merged collection.
EndOfDirectory ==
    /\ psPc = "Loop"
    /\ psNext > Len(psFiles)
    /\ psRet' = DirectoryResult(psNoTerraform, psTerraform)
    /\ psPc' = "Done"
    /\ UNCHANGED <<psNode, psFiles, psNext, psTerraform, psNoTerraform, psProcessed,
                   psEarlier, dvars, evars, fvars, svars>>

\* A deviation: the suffix test of the directory loop is applied to the path.
SingleFileChecksSuffix ==
    /\ psPc = "File"
    /\ psRet' = IF HasSuffix(psNode.Name, ".tf") THEN processFile(psNode.file)
                ELSE Returned(EmptyTerraform, NoTerraformError)
    /\ psPc' = "Done"
    /\ UNCHANGED <<psNode, psFiles, psNext, psTerraform, psNoTerraform, psProcessed,
                   psEarlier, dvars, evars, fvars, svars>>

\* return processFile(filePath)
SingleFile ==
    /\ psPc = "File"
    /\ psRet' = processFile(psNode.file)
    /\ psPc' = "Done"
    /\ UNCHANGED <<psNode, psFiles, psNext, psTerraform, psNoTerraform, psProcessed,
                   psEarlier, dvars, evars, fvars, svars>>

Next == Stat \/ ReadDir \/ VisitEntry \/ EndOfDirectory \/ SingleFile

Spec == Init /\ [][Next]_vars

(***************************************************************************)
(* Parse, call after call.  The variables of a call are not made anew by   *)
(* the model when the next call starts: they hold what the call before     *)
(* left in them until the code assigns them.                               *)
(***************************************************************************)
\* The loop of Parse after the entries 1..n of the listing.
RECURSIVE ParseLoop(_, _)
ParseLoop(files, n) ==
    IF n = 0 THEN [terraform |-> EmptyTerraform, noTerraform |-> TRUE, err |-> NoError]
    ELSE LET before == ParseLoop(files, n - 1)
         IN  IF before.err # NoError THEN before
             ELSE IF HasSuffix(files[n].Name, ".tf")
             THEN LET child == processFile(files[n].file)
                  IN  IF child.err # NoError
                      THEN [before EXCEPT !.noTerraform = FALSE, !.err = child.err]
                      ELSE [before EXCEPT !.noTerraform = FALSE,
                                          !.terraform = Merge(@, child.terraform)]
             ELSE before

\* Parse as a function of what the path names: what a call returns that
\* starts with nothing left from another call.
Parse(node) ==
    IF node.statErr # NoError THEN Returned(EmptyTerraform, node.statErr)
    ELSE IF node.IsDir
    THEN LET files == IF node.readDirErr # NoError THEN <<>> ELSE node.entries
             loop == ParseLoop(files, Len(files))
         IN  IF loop.err # NoError THEN ChildFailure(loop.terraform, loop.err)
             ELSE DirectoryResult(loop.noTerraform, loop.terraform)
    ELSE processFile(node.file)

MaxCalls == 3        \* Parse calls in a row

\* What the paths of the calls name: nothing, a directory that cannot be
\* listed, directories that succeed, fail after a merge or hold no
\* Terraform file, and single files.
CallNodes ==
    { Node("missing", OsError("stat"), FALSE, NoError, <<>>, UnreadableFile),
      Node("dir", NoError, TRUE, OsError("readdir"), <<Entry("a.tf", CombinedFile)>>,
           UnreadableFile),
      Node("dir", NoError, TRUE, NoError, <<>>, UnreadableFile),
      Node("dir", NoError, TRUE, NoError, <<Entry("b.tfvars", CombinedFile)>>, UnreadableFile),
      Node("dir", NoError, TRUE, NoError, <<Entry("a.tf", CombinedFile)>>, UnreadableFile),
      Node("dir", NoError, TRUE, NoError,
           <<Entry("a.tf", CombinedFile), Entry("c.tf", HclFile(<<>>, <<VarTest, VarSensitive>>))>>,
           UnreadableFile),
      Node("dir", NoError, TRUE, NoError,
           <<Entry("a.tf", CombinedFile), Entry("c.tf", HclFile(<<>>, <<VarHello, VarObject>>))>>,
           UnreadableFile),
      Node("main.tf", NoError, FALSE, NoError, <<>>, CombinedFile),
      Node("main.tf", NoError, FALSE, NoError, <<>>, MalformedFile) }

InitCalls ==
    /\ psNode \in CallNodes
    /\ psPc = "Stat"
    /\ psFiles = <<>>
    /\ psNext = 1
    /\ psTerraform = EmptyTerraform
    /\ psNoTerraform = TRUE
    /\ psRet = NotReturned
    /\ psProcessed = <<>>
    /\ psEarlier = <<>>
    /\ NoDiagCall
    /\ NoExtractCall
    /\ NoFileCall
    /\ SchemasAsDeclared

\* The caller calls Parse again, on any path, after the call has returned.
Call ==
    /\ psPc = "Done"
    /\ Len(psEarlier) + 1 < MaxCalls
    /\ psEarlier' = Append(psEarlier, psRet)
    /\ psNode' \in CallNodes
    /\ psPc' = "Stat"
    /\ psProcessed' = <<>>
    /\ UNCHANGED <<psFiles, psNext, psTerraform, psNoTerraform, psRet, dvars, evars, fvars, svars>>

NextCalls == Stat \/ ReadDir \/ VisitEntry \/ EndOfDirectory \/ SingleFile \/ Call

SpecCalls == InitCalls /\ [][NextCalls]_vars

\* The steps of Parse and the function Parse agree.
StepsAgreeWithParse == psPc = "Done" => psRet = Parse(psNode)

\* The stages of processFile and the function processFile agree.
StagesAgreeWithProcessFile == pfPc = "Returned" => pfRet = processFile(pfFile)

(***************************************************************************)
(* Claims about checkDiagnostics, checked under SpecDiag.                  *)
(***************************************************************************)
\* The message of diag contains, case-insensitively, some entry of allowed.
MessageHasEntry(diag, allowed) ==
    \E j \in 1..Len(allowed) : Contains(ToLower(diag.Message), ToLower(allowed[j]))

\* The subsequence of diags whose message contains no entry of allowed.
Unmatched(diags, allowed) ==
    SelectSeq(diags, LAMBDA diag : ~MessageHasEntry(diag, allowed))

\* C6: for a single diagnostic d of any severity and any allow-list A,
\* checkDiagnostics([d], A) is empty if and only if d's message contains,
\* case-insensitively, at least one entry of A.
C6_SingleEmptyIffMatch ==
    (cdOut.called /\ Len(cdIn.diags) = 1) =>
        ((cdOut.diagErrors = <<>>) <=> MessageHasEntry(cdIn.diags[1], cdIn.allowedErrors))

\* C7: with the empty allow-list checkDiagnostics returns its input list:
\* the same diagnostics in the same order, nothing suppressed.
C7_EmptyAllowListIsIdentity ==
    (cdOut.called /\ Len(cdIn.allowedErrors) = 0) => cdOut.diagErrors = cdIn.diags

\* C7 witness: a call with the empty allow-list has returned a list of two
\* diagnostics, none of them an error.
C7_Witness ==
    /\ cdOut.called
    /\ Len(cdIn.allowedErrors) = 0
    /\ Len(cdIn.diags) = 2
    /\ ~HasErrors(cdIn.diags)
    /\ cdIn.diags[1] # cdIn.diags[2]

\* C8: with a non-empty allow-list checkDiagnostics returns exactly the
\* subsequence of the diagnostics whose message contains no entry of the
\* allow-list, each once and in input order.
C8_NonEmptyAllowListIsUnmatched ==
    (cdOut.called /\ Len(cdIn.allowedErrors) > 0) =>
        cdOut.diagErrors = Unmatched(cdIn.diags, cdIn.allowedErrors)

(***************************************************************************)
(* Claims about the extractors, checked under SpecExtract.                 *)
(***************************************************************************)
\* C9: processVariable on a block whose type is not "variable", and
\* processOutput on a block whose type is not "output", return a nil record
\* and nil diagnostics, and make no Content and no DecodeExpression call.
C9_MismatchedTypeIsAbsent ==
    /\ (exOut.called = "processVariable" /\ exIn.Type # "variable") =>
           (exOut.record = Nil /\ exOut.diagErr = <<>> /\ exOut.calls = <<>>)
    /\ (exOut.called = "processOutput" /\ exIn.Type # "output") =>
           (exOut.record = Nil /\ exOut.diagErr = <<>> /\ exOut.calls = <<>>)

\* C9 witness: processVariable has returned for an output block whose body
\* holds a nested block, which the variable schema would have refused.
C9_Witness ==
    /\ exOut.called = "processVariable"
    /\ exIn.Type = "output"
    /\ exIn.Body.Blocks # <<>>

(***************************************************************************)
(* Claims about processFile, checked under SpecFile.                       *)
(***************************************************************************)
OfType(blocks, type) == SelectSeq(blocks, LAMBDA b : b.Type = type)

\* C1: when processFile returns a nil error, the collection holds a record
\* for every variable block and every output block of the top-level schema
\* match, whatever the severities of the diagnostics the extractors returned.
C1_SuccessHoldsEveryBlock ==
    (pfPc = "Returned" /\ pfRet.err = NoError) =>
        /\ Len(pfRet.terraform.Variables) = Len(OfType(pfBody.Blocks, "variable"))
        /\ Len(pfRet.terraform.Outputs) = Len(OfType(pfBody.Blocks, "output"))

\* C2: when processFile returns a non-nil error, the collection it returns
\* is empty: Variables and Outputs are both nil.
C2_FailureReturnsEmpty ==
    (pfPc = "Returned" /\ pfRet.err # NoError) => pfRet.terraform = EmptyTerraform

\* C2 witness: processFile has returned an error after processTerraform had
\* extracted a record from the first block of the file and failed on the second.
C2_Witness ==
    /\ pfPc = "Returned"
    /\ pfRet.err # NoError
    /\ pfAcc.terraform # EmptyTerraform
    /\ pfFile.Body.Blocks[1].Type \in {"variable", "output"}
    /\ processFile([pfFile EXCEPT !.Body.Blocks = SubSeq(@, 1, 1)]).err = NoError

\* The diagnostics of the top-level schema match are all "unsupported block".
OnlyUnsupportedBlocks(rawHcl) ==
    LET diags == BodyContent(rawHcl.Body, importantBlocksSchema).diags
    IN  \A i \in 1..Len(diags) :
            Contains(ToLower(diags[i].Message), DiagIgnoreUnsupportedBlock)

\* The file without its top-level blocks of a type other than variable, output.
WithoutOtherBlocks(file) ==
    [file EXCEPT !.Body.Blocks =
        SelectSeq(@, LAMBDA b : b.Type \in {"variable", "output"})]

\* C10: when the only diagnostics of the top-level schema match are
\* "unsupported block" ones, processSchema returns the matched content with
\* nil diagnostics, no block of another type yields a record, and
\* processFile returns what it returns for the file without those blocks.
C10_OtherBlocksAreIgnored ==
    (pfRawHcl # Nil /\ OnlyUnsupportedBlocks(pfRawHcl)) =>
        /\ (pfPc \in {"DispatchBlocks", "Aggregate", "Returned"}) =>
               /\ pfBody # Nil
               /\ pfBody.Blocks = WithoutOtherBlocks(pfFile).Body.Blocks
        /\ (pfPc = "Returned") =>
               /\ pfRet = processFile(WithoutOtherBlocks(pfFile))
               /\ Len(pfRet.terraform.Variables) <= Len(OfType(pfFile.Body.Blocks, "variable"))
               /\ Len(pfRet.terraform.Outputs) <= Len(OfType(pfFile.Body.Blocks, "output"))

\* C10 witness: processFile has returned a record and no error for a file
\* whose first top-level block is of a type the schema does not name.
C10_Witness ==
    /\ pfPc = "Returned"
    /\ pfRet.err = NoError
    /\ Len(pfFile.Body.Blocks) = 2
    /\ pfFile.Body.Blocks[1].Type = "resource"
    /\ Len(pfRet.terraform.Variables) = 1

(***************************************************************************)
(* Claims about Parse on a directory, checked under Spec.                  *)
(***************************************************************************)
Matching(files, i) == HasSuffix(files[i].Name, ".tf")
Fails(files, i) == processFile(files[i].file).err # NoError

\* The indexes, in increasing order, of the entries 1..n whose name ends in ".tf".
RECURSIVE MatchingUpTo(_, _)
MatchingUpTo(files, n) ==
    IF n = 0 THEN <<>>
    ELSE IF Matching(files, n) THEN Append(MatchingUpTo(files, n - 1), n)
         ELSE MatchingUpTo(files, n - 1)

\* Some matching entry of the listing fails, and i is the first that does.
FirstFailing(files, i) ==
    /\ Matching(files, i) /\ Fails(files, i)
    /\ \A j \in 1..(i - 1) : ~(Matching(files, j) /\ Fails(files, j))

DoneOnDirectory == psPc = "Done" /\ psNode.statErr = NoError /\ psNode.IsDir

\* C3: when processFile fails for a matching file of the directory, Parse
\* returns that file's error with an empty collection; the records merged
\* from earlier files are not returned and no later file is processed.
C3_DirectoryAbortsOnFirstFailure ==
    DoneOnDirectory =>
        \A i \in 1..Len(psFiles) :
            FirstFailing(psFiles, i) =>
                /\ psRet.err = processFile(psFiles[i].file).err
                /\ psRet.terraform = EmptyTerraform
                /\ psProcessed = MatchingUpTo(psFiles, i)

\* C3 witness: Parse has returned the error of the second of three matching
\* entries after it had merged records of the first; the third would succeed.
C3_Witness ==
    /\ DoneOnDirectory
    /\ Len(psFiles) = 3
    /\ \A i \in 1..3 : Matching(psFiles, i)
    /\ FirstFailing(psFiles, 2)
    /\ ~Fails(psFiles, 3)
    /\ psTerraform.Variables # <<>>
    /\ psRet.err # NoError

\* The records of the blocks of the given type that yield one, in block order.
RECURSIVE RecordsUpTo(_, _, _)
RecordsUpTo(blocks, type, n) ==
    IF n = 0 THEN <<>>
    ELSE LET before == RecordsUpTo(blocks, type, n - 1)
             r == IF type = "variable" THEN processVariable(blocks[n])
                                       ELSE processOutput(blocks[n])
         IN  IF blocks[n].Type = type /\ r.record # Nil THEN Append(before, r.record)
             ELSE before

FileRecords(file, type) == RecordsUpTo(file.Body.Blocks, type, Len(file.Body.Blocks))

\* The records of the matching entries 1..n, in listing order.
RECURSIVE ListingRecords(_, _, _)
ListingRecords(files, type, n) ==
    IF n = 0 THEN <<>>
    ELSE IF Matching(files, n)
         THEN ListingRecords(files, type, n - 1) \o FileRecords(files[n].file, type)
         ELSE ListingRecords(files, type, n - 1)

\* C4: on a successful Parse of a directory, Variables is the concatenation,
\* in listing order of the matching files, of each file's variable records
\* in block order, and Outputs the same concatenation of output records.
C4_DirectoryMergeKeepsOrder ==
    (DoneOnDirectory /\ psRet.err = NoError) =>
        /\ psRet.terraform.Variables = ListingRecords(psFiles, "variable", Len(psFiles))
        /\ psRet.terraform.Outputs = ListingRecords(psFiles, "output", Len(psFiles))

\* C4 witness: Parse has returned, without error, the records of two files,
\* the first of which holds two different variables.
C4_Witness ==
    /\ DoneOnDirectory
    /\ psRet.err = NoError
    /\ Len(psProcessed) = 2
    /\ Len(psRet.terraform.Variables) = 3
    /\ psRet.terraform.Variables[1] # psRet.terraform.Variables[2]
    /\ psRet.terraform.Variables[2] # psRet.terraform.Variables[3]
    /\ psRet.terraform.Outputs # <<>>

\* The file loads, matches and extracts, and holds no variable or output block.
SucceedsWithoutBlocks(file) ==
    /\ processFile(file).err = NoError
    /\ \A k \in 1..Len(file.Body.Blocks) : file.Body.Blocks[k].Type \notin {"variable", "output"}

\* C5: Parse on a directory returns the "no Terraform files found" error if
\* and only if no entry of the listing has a name ending in ".tf"; when
\* there are matching files and all succeed without a variable or output
\* block, it returns a nil error and an empty collection.
C5_NoTerraformIffNoMatchingEntry ==
    DoneOnDirectory =>
        /\ (psRet.err = NoTerraformError) <=>
               (\A i \in 1..Len(psFiles) : ~Matching(psFiles, i))
        /\ ( /\ \E i \in 1..Len(psFiles) : Matching(psFiles, i)
             /\ \A i \in 1..Len(psFiles) :
                    Matching(psFiles, i) => SucceedsWithoutBlocks(psFiles[i].file) )
           => psRet = Returned(EmptyTerraform, NoError)

\* C5 witness: Parse has returned for a directory whose two entries end in
\* ".tf" and hold no variable or output block, one of them a resource block.
C5_Witness ==
    /\ DoneOnDirectory
    /\ Len(psFiles) = 2
    /\ \A i \in 1..2 : Matching(psFiles, i) /\ SucceedsWithoutBlocks(psFiles[i].file)
    /\ psFiles[1].file # psFiles[2].file
    /\ psRet.err = NoError

(***************************************************************************)
(* Claims about attributes outside the schema, checked under SpecExtract.  *)
(***************************************************************************)
\* The block without the attributes its schema does not name.
WithoutUnknownAttributes(block, schema) ==
    [block EXCEPT !.Body.Attributes = SelectSeq(@, LAMBDA a : a.Name \in schema.Attributes)]

\* No diagnostic of diags is an "unsupported attribute" / "unsupported argument" one.
NoUnsupportedAttribute(diags) ==
    \A i \in 1..Len(diags) :
        /\ ~Contains(ToLower(diags[i].Message), DiagIgnoreUnsupportedAttribute)
        /\ ~Contains(ToLower(diags[i].Message), DiagIgnoreUnsupportedArgument)

\* C11: a variable or output block that carries attributes outside its
\* schema yields what the block without them yields (a record with the name
\* and the default or value), and no "unsupported attribute" / "unsupported
\* argument" diagnostic is among those the extractor returns.
C11_UnknownAttributesAreDropped ==
    /\ (exOut.called = "processVariable" /\ exIn.Type = "variable") =>
           LET bare == processVariable(WithoutUnknownAttributes(exIn, variableBlockSchema))
           IN  /\ exOut.record = bare.record
               /\ exOut.diagErr = bare.diagErr
               /\ NoUnsupportedAttribute(exOut.diagErr)
    /\ (exOut.called = "processOutput" /\ exIn.Type = "output") =>
           LET bare == processOutput(WithoutUnknownAttributes(exIn, outputBlockSchema))
           IN  /\ exOut.record = bare.record
               /\ exOut.diagErr = bare.diagErr
               /\ NoUnsupportedAttribute(exOut.diagErr)

(***************************************************************************)
(* Claims about blocks that do not decode, checked under SpecFile.         *)
(***************************************************************************)
\* The attribute of interest of a block of the given type.
InterestingAttribute(type) == IF type = "variable" THEN "default" ELSE "value"

\* The extractor processTerraform passes a block of the given type to.
Extractor(block) ==
    IF block.Type = "variable" THEN processVariable(block) ELSE processOutput(block)

\* The diagnostics of the block's own schema match, after the filter.
ContentErrors(block) ==
    checkDiagnostics(
        BodyContent(block.Body, IF block.Type = "variable" THEN variableBlockSchema
                                ELSE outputBlockSchema).diags,
        <<DiagIgnoreUnsupportedAttribute, DiagIgnoreUnsupportedArgument>>)

\* The block is a variable or an output whose schema match passes and whose
\* default or value is present with an expression that does not decode.
DecodeFails(block) ==
    /\ block.Type \in {"variable", "output"}
    /\ ContentErrors(block) = <<>>
    /\ HasAttribute(block.Body, InterestingAttribute(block.Type))
    /\ HasErrors(AttributeExpr(block.Body, InterestingAttribute(block.Type)).diags)

\* diags occurs in all as a run of consecutive diagnostics.
OccursIn(diags, all) ==
    \E i \in 0..(Len(all) - Len(diags)) : SubSeq(all, i + 1, i + Len(diags)) = diags

\* C12: when the default of a variable block or the value of an output block
\* is present and does not decode to a string, the extractor returns a nil
\* record and the decode diagnostics as they are, and processFile on the
\* file returns an error (with those diagnostics, when the file loads and
\* matches) and no record, not even of the well-formed blocks of the file.
C12_DecodeFailureFailsTheFile ==
    \A k \in 1..Len(pfFile.Body.Blocks) :
        LET block == pfFile.Body.Blocks[k]
            decodeDiags == AttributeExpr(block.Body, InterestingAttribute(block.Type)).diags
        IN  DecodeFails(block) =>
                /\ Extractor(block).record = Nil
                /\ Extractor(block).diagErr = decodeDiags
                /\ (pfPc = "Returned") =>
                       /\ pfRet.err # NoError
                       /\ pfRet.terraform = EmptyTerraform
                       /\ (pfBody # Nil) =>
                              /\ pfRet.err.kind = "diagnostics"
                              /\ OccursIn(decodeDiags, pfRet.err.diags)

\* C12 witness: processFile has returned for a file of two blocks: the first
\* alone yields a record, the second is an output whose value does not decode.
C12_Witness ==
    /\ pfPc = "Returned"
    /\ Len(pfFile.Body.Blocks) = 2
    /\ processFile([pfFile EXCEPT !.Body.Blocks = SubSeq(@, 1, 1)]).terraform # EmptyTerraform
    /\ pfFile.Body.Blocks[2].Type = "output"
    /\ DecodeFails(pfFile.Body.Blocks[2])
    /\ pfAcc.terraform.Variables # <<>>

(***************************************************************************)
(* Claims about loadFile, checked under SpecFile.                          *)
(***************************************************************************)
\* loadFile has returned an error: processFile returned right after Load.
LoadReturnedError == pfStages = <<"Load">> /\ pfPc = "Returned"

\* C13: loadFile returns a document or an error and never both: a nil
\* document and the error of the read or of the parse when the file cannot
\* be read or its bytes do not parse, the parsed document and a nil error
\* when the file is read and parses.
C13_LoadFileDocumentOrError ==
    (pfStages # <<>>) =>
        /\ (pfRawHcl = Nil) <=> LoadReturnedError
        /\ (pfFile.readErr # NoError) =>
               (pfRawHcl = Nil /\ LoadReturnedError /\ pfRet.err = pfFile.readErr)
        /\ (pfFile.readErr = NoError /\ HasErrors(pfFile.parseDiags)) =>
               /\ pfRawHcl = Nil
               /\ LoadReturnedError
               /\ pfRet.err = DiagnosticsError(pfFile.parseDiags)
        /\ (pfFile.readErr = NoError /\ ~HasErrors(pfFile.parseDiags)) =>
               (pfRawHcl # Nil /\ pfRawHcl.Body = pfFile.Body /\ ~LoadReturnedError)

\* C13 witness: loadFile has returned an error for a file whose bytes the
\* parser had made a partial document of.
C13_Witness ==
    /\ LoadReturnedError
    /\ pfFile.readErr = NoError
    /\ pfFile.Body.Blocks # <<>>
    /\ pfRawHcl = Nil

(***************************************************************************)
(* Claims about Parse on any path, checked under Spec.                     *)
(***************************************************************************)
DoneOnFile == psPc = "Done" /\ psNode.statErr = NoError /\ ~psNode.IsDir

\* C14: every failure of the file system met during a Parse call (of
\* os.Stat, of ioutil.ReadDir, of os.ReadFile for a file it processes) is the
\* error Parse returns.
C14_FileSystemFailuresAreReturned ==
    (psPc = "Done") =>
        /\ (psNode.statErr # NoError) => psRet.err = psNode.statErr
        /\ (DoneOnDirectory /\ psNode.readDirErr # NoError) => psRet.err = psNode.readDirErr
        /\ DoneOnDirectory =>
               \A k \in 1..Len(psProcessed) :
                   LET file == psFiles[psProcessed[k]].file
                   IN  (file.readErr # NoError) => psRet.err = file.readErr
        /\ (DoneOnFile /\ psNode.file.readErr # NoError) => psRet.err = psNode.file.readErr

\* C15: for a path that is not a directory Parse returns what processFile
\* returns for it, collection and error, whatever the path's name and
\* whether or not the collection is empty.
C15_SingleFileIsProcessFile ==
    DoneOnFile => psRet = processFile(psNode.file)

\* C15 witness: Parse has returned records and no error for a single file
\* whose name does not end in ".tf".
C15_Witness ==
    /\ DoneOnFile
    /\ ~HasSuffix(psNode.Name, ".tf")
    /\ psRet.err = NoError
    /\ psRet.terraform.Variables # <<>>
    /\ psRet.terraform.Outputs # <<>>

(***************************************************************************)
(* Claims about the records, checked under SpecExtract.                    *)
(***************************************************************************)
\* What the attribute named attr of the block decodes to; the zero string
\* when the block has no such attribute.
DecodedOrUnset(block, attr) ==
    IF HasAttribute(block.Body, attr) THEN AttributeExpr(block.Body, attr).value ELSE ""

\* C16: the record of a successfully extracted variable block holds the
\* block's first label as Name and, as Default, what the default attribute
\* decodes to, or the empty string when there is no default attribute; the
\* same for an output block, Value and the value attribute.  The block
\* variable "x" { default = "hello" } alone yields the one record {x, hello}
\* and no diagnostics.
C16_RecordHoldsNameAndValue ==
    /\ (exOut.called = "processVariable" /\ exOut.record # Nil) =>
           /\ exOut.record = Variable(exIn.Labels[1], DecodedOrUnset(exIn, "default"))
           /\ exOut.diagErr = <<>>
    /\ (exOut.called = "processOutput" /\ exOut.record # Nil) =>
           /\ exOut.record = Output(exIn.Labels[1], DecodedOrUnset(exIn, "value"))
           /\ exOut.diagErr = <<>>
    /\ (exOut.called = "processVariable" /\ exIn = VarHello) =>
           /\ exOut.record = Variable("x", "hello")
           /\ exOut.diagErr = <<>>
           /\ processFile(HclFile(<<>>, <<exIn>>)) =
                  Returned([Variables |-> <<Variable("x", "hello")>>, Outputs |-> <<>>], NoError)

\* C16 witness: processOutput has returned the record of an output block
\* that holds type, description and value attributes.
C16_Witness ==
    /\ exOut.called = "processOutput"
    /\ exIn.Type = "output"
    /\ Len(exIn.Body.Attributes) = 3
    /\ HasAttribute(exIn.Body, "value")
    /\ exOut.record # Nil
    /\ exOut.record.Value = "test"

(***************************************************************************)
(* Claims about the names of the records, checked under SpecFile.          *)
(***************************************************************************)
\* C17: every record of the collection processFile returns has a non-empty
\* name, for every document that loads and passes the top-level schema match.
C17_RecordNamesAreNonEmpty ==
    (pfPc = "Returned") =>
        /\ \A i \in 1..Len(pfRet.terraform.Variables) : pfRet.terraform.Variables[i].Name # ""
        /\ \A i \in 1..Len(pfRet.terraform.Outputs) : pfRet.terraform.Outputs[i].Name # ""

(***************************************************************************)
(* Claims about duplicate names, checked under Spec.                       *)
(***************************************************************************)
\* The first labels of the blocks 1..n of the given type, in block order.
RECURSIVE NamesUpTo(_, _, _)
NamesUpTo(blocks, type, n) ==
    IF n = 0 THEN <<>>
    ELSE IF blocks[n].Type = type THEN Append(NamesUpTo(blocks, type, n - 1), blocks[n].Labels[1])
         ELSE NamesUpTo(blocks, type, n - 1)

DeclaredNames(file, type) == NamesUpTo(file.Body.Blocks, type, Len(file.Body.Blocks))

\* The names the matching entries 1..n declare, in listing then block order.
RECURSIVE ListingNames(_, _, _)
ListingNames(files, type, n) ==
    IF n = 0 THEN <<>>
    ELSE IF Matching(files, n)
         THEN ListingNames(files, type, n - 1) \o DeclaredNames(files[n].file, type)
         ELSE ListingNames(files, type, n - 1)

RecordNames(records) == [i \in 1..Len(records) |-> records[i].Name]

\* C18: nothing is deduplicated: the names of the records of a successful
\* result are the names the variable (output) blocks declare, in processing
\* order, so that a name declared by k blocks, in one file or across the
\* files of a directory, is the name of k records.
C18_DuplicateNamesPassThrough ==
    /\ (DoneOnFile /\ psRet.err = NoError) =>
           /\ RecordNames(psRet.terraform.Variables) = DeclaredNames(psNode.file, "variable")
           /\ RecordNames(psRet.terraform.Outputs) = DeclaredNames(psNode.file, "output")
    /\ (DoneOnDirectory /\ psRet.err = NoError) =>
           /\ RecordNames(psRet.terraform.Variables) =
                  ListingNames(psFiles, "variable", Len(psFiles))
           /\ RecordNames(psRet.terraform.Outputs) =
                  ListingNames(psFiles, "output", Len(psFiles))

(***************************************************************************)
(* Claims about Parse call after call, checked under SpecCalls.            *)
(***************************************************************************)
\* C19: a Parse call returns only what it extracted itself: whatever the
\* earlier calls were and returned, it returns the collection and the error
\* that the same call returns when it is the first.
C19_CallsShareNothing ==
    (psPc = "Done") => psRet = Parse(psNode)

\* C19 witness: the third call has returned the records of a directory; the
\* first call had returned other records, the second had failed.
C19_Witness ==
    /\ DoneOnDirectory
    /\ Len(psEarlier) = 2
    /\ psEarlier[1].err = NoError
    /\ psEarlier[1].terraform.Variables # <<>>
    /\ psEarlier[2].err # NoError
    /\ psTerraform.Variables # <<>>
    /\ psRet.err = NoError
    /\ psRet.terraform # psEarlier[1].terraform

(***************************************************************************)
(* Claims about the schema variables, checked under SpecCalls.             *)
(***************************************************************************)
\* C20: no step of a Parse call, with the calls of processFile, loadFile,
\* processSchema, processTerraform, processVariable, processOutput and
\* checkDiagnostics it makes, writes importantBlocksSchema,
\* variableBlockSchema or outputBlockSchema: their values are the same after
\* every step of every sequence of calls.
C20_SchemasAreNotWritten ==
    [][/\ importantBlocksSchema' = importantBlocksSchema
       /\ variableBlockSchema' = variableBlockSchema
       /\ outputBlockSchema' = outputBlockSchema]_vars

\* C20 witness: the third call in a row has returned the variables and the
\* outputs of a single file, and the schemas hold the values they were
\* declared with.
C20_Witness ==
    /\ DoneOnFile
    /\ Len(psEarlier) = 2
    /\ psEarlier[1].terraform # EmptyTerraform
    /\ psRet.terraform.Variables # <<>>
    /\ psRet.terraform.Outputs # <<>>
    /\ SchemasAsDeclared

(***************************************************************************)
(* Claims about the stages of processFile, checked under SpecFile.         *)
(***************************************************************************)
\* What the "unsupported block" filter leaves of the diagnostics of the
\* top-level schema match of the document.
SurvivingTopLevel(rawHcl) ==
    checkDiagnostics(BodyContent(rawHcl.Body, importantBlocksSchema).diags,
                     <<DiagIgnoreUnsupportedBlock>>)

\* C21: when a diagnostic of the top-level schema match is left by the
\* "unsupported block" filter, processSchema returns a nil body and
\* processFile returns the diagnostics left as its error, with an empty
\* collection, and neither processTerraform nor an extractor has run: no
\* stage after MatchTop is entered and no block is visited.
C21_TopLevelFailureAbandonsTheFile ==
    (pfRawHcl # Nil /\ SurvivingTopLevel(pfRawHcl) # <<>> /\ pfPc # "MatchTop") =>
        /\ pfBody = Nil
        /\ pfPc = "Returned"
        /\ pfStages = <<"Load", "MatchTop">>
        /\ pfNext = 1
        /\ pfAcc = NoBlocksDone
        /\ pfRet = Returned(EmptyTerraform, DiagnosticsError(SurvivingTopLevel(pfRawHcl)))

\* C21 witness: processFile has returned the "unsupported argument" error of
\* a top-level attribute for a file that holds two blocks, the first of them
\* a variable that would have yielded a record.
C21_Witness ==
    /\ pfPc = "Returned"
    /\ pfRawHcl # Nil
    /\ pfFile.Body.Attributes # <<>>
    /\ Len(pfFile.Body.Blocks) = 2
    /\ pfFile.Body.Blocks[1].Type = "variable"
    /\ processVariable(pfFile.Body.Blocks[1]).record # Nil
    /\ pfRet.err # NoError
    /\ pfStages = <<"Load", "MatchTop">>

\* The stages of processFile, in the order of its statements.
StageOrder == <<"Load", "MatchTop", "DispatchBlocks", "Aggregate">>

Entered(stage) == \E i \in 1..Len(pfStages) : pfStages[i] = stage

BlockFails(block) ==
    block.Type \in {"variable", "output"} /\ Extractor(block).diagErr # <<>>

\* The diagnostics of the failing blocks among blocks 1..n, in block order.
RECURSIVE FailureDiagsUpTo(_, _)
FailureDiagsUpTo(blocks, n) ==
    IF n = 0 THEN <<>>
    ELSE IF BlockFails(blocks[n])
         THEN FailureDiagsUpTo(blocks, n - 1) \o Extractor(blocks[n]).diagErr
         ELSE FailureDiagsUpTo(blocks, n - 1)

\* The records of the blocks of the given type among blocks 1..n that do not
\* fail, in block order.
RECURSIVE UnfailedRecordsUpTo(_, _, _)
UnfailedRecordsUpTo(blocks, type, n) ==
    IF n = 0 THEN <<>>
    ELSE IF blocks[n].Type = type /\ ~BlockFails(blocks[n])
         THEN Append(UnfailedRecordsUpTo(blocks, type, n - 1), Extractor(blocks[n]).record)
         ELSE UnfailedRecordsUpTo(blocks, type, n - 1)

\* C23: a failing block does not stop the loop of processTerraform: after
\* the blocks visited so far, and so when the loop ends after every block,
\* diagErrs is the concatenation in block order of the diagnostics of the
\* failing blocks and terraform holds the records of exactly the blocks that
\* did not fail; the loop ends only when every block has been visited.
C23_FailingBlockDoesNotStopTheLoop ==
    (pfBody # Nil /\ Entered("DispatchBlocks")) =>
        /\ pfAcc.diagErrs = FailureDiagsUpTo(pfBody.Blocks, pfNext - 1)
        /\ pfAcc.terraform.Variables = UnfailedRecordsUpTo(pfBody.Blocks, "variable", pfNext - 1)
        /\ pfAcc.terraform.Outputs = UnfailedRecordsUpTo(pfBody.Blocks, "output", pfNext - 1)
        /\ \A i \in 1..Len(pfAcc.terraform.Variables) : pfAcc.terraform.Variables[i] # Nil
        /\ \A i \in 1..Len(pfAcc.terraform.Outputs) : pfAcc.terraform.Outputs[i] # Nil
        /\ (pfPc \in {"Aggregate", "Returned"}) => pfNext = Len(pfBody.Blocks) + 1

\* C23 witness: the loop has ended for two blocks: the first is a variable
\* that failed, the second an output whose record is in the collection.
C23_Witness ==
    /\ pfPc = "Aggregate"
    /\ Len(pfBody.Blocks) = 2
    /\ pfBody.Blocks[1].Type = "variable"
    /\ BlockFails(pfBody.Blocks[1])
    /\ pfBody.Blocks[2].Type = "output"
    /\ Len(pfAcc.terraform.Outputs) = 1
    /\ pfAcc.diagErrs # <<>>

\* The other way to dispatch a block: processVariable is tried on it, then
\* processOutput, whatever its type; what either returns is accumulated as
\* the loop of processTerraform accumulates it.
TryBothExtractors(acc, block) ==
    LET v == processVariable(block)
        afterVariable ==
            IF v.diagErr # <<>> THEN [acc EXCEPT !.diagErrs = @ \o v.diagErr]
            ELSE IF v.record # Nil THEN [acc EXCEPT !.terraform.Variables = Append(@, v.record)]
            ELSE acc
        o == processOutput(block)
    IN  IF o.diagErr # <<>> THEN [afterVariable EXCEPT !.diagErrs = @ \o o.diagErr]
        ELSE IF o.record # Nil
        THEN [afterVariable EXCEPT !.terraform.Outputs = Append(@, o.record)]
        ELSE afterVariable

RECURSIVE TryBothLoop(_, _)
TryBothLoop(blocks, n) ==
    IF n = 0 THEN NoBlocksDone
    ELSE TryBothExtractors(TryBothLoop(blocks, n - 1), blocks[n])

\* C24: routing each block by its type, as processTerraform does, gives the
\* collection and the diagnostics that trying processVariable and then
\* processOutput on every block gives: for the blocks the loop has visited
\* so far, and for every sequence of top-level blocks of a document, those
\* of another type included.
C24_RoutingEqualsTryingBoth ==
    /\ (pfBody # Nil /\ Entered("DispatchBlocks")) =>
           pfAcc = TryBothLoop(pfBody.Blocks, pfNext - 1)
    /\ processTerraform(pfFile.Body) =
           TryBothLoop(pfFile.Body.Blocks, Len(pfFile.Body.Blocks))

\* C24 witness: the loop has ended for an output block followed by a
\* variable block, each with its record in the collection.
C24_Witness ==
    /\ pfPc = "Aggregate"
    /\ Len(pfBody.Blocks) = 2
    /\ pfBody.Blocks[1].Type = "output"
    /\ pfBody.Blocks[2].Type = "variable"
    /\ Len(pfAcc.terraform.Outputs) = 1
    /\ Len(pfAcc.terraform.Variables) = 1
    /\ pfAcc.diagErrs = <<>>

(***************************************************************************)
(* Claims about the entries Parse visits, checked under Spec.              *)
(***************************************************************************)
\* The entry of the listing at which the loop of Parse stops: the first
\* matching entry that fails, the last entry when none fails.
LastVisited(files) ==
    IF \E i \in 1..Len(files) : FirstFailing(files, i)
    THEN CHOOSE i \in 1..Len(files) : FirstFailing(files, i)
    ELSE Len(files)

\* What processFile returns for the entries of the listing with the given
\* indexes, merged in that order.
RECURSIVE MergedOf(_, _, _)
MergedOf(files, indexes, n) ==
    IF n = 0 THEN EmptyTerraform
    ELSE Merge(MergedOf(files, indexes, n - 1), processFile(files[indexes[n]].file).terraform)

\* C25: on a directory processFile is invoked on exactly the immediate
\* entries whose name ends in ".tf", each once and in listing order, up to
\* the first that fails; a successful result holds the records of those
\* entries and no other: nothing of an entry of another name, nothing of
\* what a subdirectory holds.
C25_OnlyImmediateTfEntriesAreProcessed ==
    DoneOnDirectory =>
        /\ psProcessed = MatchingUpTo(psFiles, LastVisited(psFiles))
        /\ \A k \in 1..Len(psProcessed) : HasSuffix(psFiles[psProcessed[k]].Name, ".tf")
        /\ \A k \in 1..(Len(psProcessed) - 1) : psProcessed[k] < psProcessed[k + 1]
        /\ (psRet.err = NoError) =>
               /\ psRet.terraform = MergedOf(psFiles, psProcessed, Len(psProcessed))
               /\ \A k \in 1..Len(psProcessed) : ~psFiles[psProcessed[k]].IsDir

\* C25 witness: Parse has returned the records of the one file it
\* processed, for a listing of that file, a file of another name that holds
\* records too, and a subdirectory that holds a Terraform file.
C25_Witness ==
    /\ DoneOnDirectory
    /\ Len(psFiles) = 3
    /\ psProcessed = <<1>>
    /\ ~psFiles[2].IsDir
    /\ FileRecords(psFiles[2].file, "variable") # <<>>
    /\ psFiles[3].IsDir
    /\ FileRecords(psFiles[3].entries[1].file, "variable") # <<>>
    /\ psRet.err = NoError
    /\ Len(psRet.terraform.Variables) = 1

(***************************************************************************)
(* Claims about what the extractors return, checked under SpecExtract.     *)
(***************************************************************************)
\* The block's type is the one the called extractor handles.
TypeMatchesExtractor ==
    \/ exOut.called = "processVariable" /\ exIn.Type = "variable"
    \/ exOut.called = "processOutput" /\ exIn.Type = "output"

\* C26: processVariable and processOutput never return a record together
\* with diagnostics: the record is non-nil and the diagnostics are nil, or
\* the record is nil; and when the block's type is the extractor's and the
\* record is nil, the diagnostics are non-nil.
C26_RecordOrDiagnostics ==
    (exOut.called # "none") =>
        /\ (exOut.record # Nil) => exOut.diagErr = <<>>
        /\ (TypeMatchesExtractor /\ exOut.record = Nil) => exOut.diagErr # <<>>

\* C26 witness: processVariable has returned for a variable block whose
\* default decodes with a warning and no error.
C26_Witness ==
    /\ exOut.called = "processVariable"
    /\ exIn.Type = "variable"
    /\ HasAttribute(exIn.Body, "default")
    /\ AttributeExpr(exIn.Body, "default").diags # <<>>
    /\ ~HasErrors(AttributeExpr(exIn.Body, "default").diags)
    /\ exOut.record = Nil

=============================================================================
